---- MODULE Spec2Model ----
(***************************************************************************)
(* State-machine model of src/pyembedding.py: the lagged-matrix builder    *)
(* (make_partial_embedding, make_full_embedding), the distance engine      *)
(* (squared_euclidean_distance, assign_diagonal), find_neighbors and the   *)
(* greedy lag selection nichkawde_embedding.                               *)
(*                                                                         *)
(* Floats.  A float of the program is modelled by an integer: a finite     *)
(* non-negative value by itself, float('nan') by NaN and float('inf') by   *)
(* Inf.  Series values are non-negative integers, so every finite float    *)
(* the program computes from them before the division of line 191 is a     *)
(* non-negative integer or the square root of one.  A finite entry s of a  *)
(* matrix produced by numpy.sqrt (the matrix D of nichkawde_embedding and  *)
(* the vector DN) stands for sqrt(s): sqrt is strictly increasing and      *)
(* sqrt(0) = 0, so order, ties and the test D == 0.0 are those of s.       *)
(*                                                                         *)
(* Indices.  Sequences are 1-based: row r (0-based) of a numpy array is    *)
(* element r+1 of the model's sequence.  Lags keep their numeric value;    *)
(* the column of X_full for lag t is column t+1.  N holds 1-based rows.    *)
(***************************************************************************)
EXTENDS Integers, Sequences, FiniteSets, TLC

VARIABLES x, E_max, neighbor_offset_min, preserve_indices,
          X_full, taus, D, offset, N, DN, scores, max_deriv_tau,
          pc, iters, exc, ret, call

vars == <<x, E_max, neighbor_offset_min, preserve_indices,
          X_full, taus, D, offset, N, DN, scores, max_deriv_tau,
          pc, iters, exc, ret, call>>

embedVars == <<x, E_max, neighbor_offset_min, preserve_indices,
               X_full, taus, D, offset, N, DN, scores, max_deriv_tau,
               pc, iters, exc, ret>>

-----------------------------------------------------------------------------
(* Bounds of the model *)

\* longest series
MaxN == 4
\* largest E_max of nichkawde_embedding and largest E of make_full_embedding
MaxE == 5
\* largest neighbor_offset_min
MaxOffset == 2
\* largest lag handed to make_partial_embedding directly
MaxLag == 5
\* longest lag sequence handed to make_partial_embedding directly
MaxLags == 2
\* largest tau handed to make_full_embedding directly
MaxTau == 2
\* largest side of a matrix handed directly to assign_diagonal / find_neighbors
MaxDim == 2

\* the values a series element takes
Values == {0, 1, 3}
\* the entries of a matrix handed directly to assign_diagonal / find_neighbors
DVals == {0, 1, 2}

-----------------------------------------------------------------------------
(* Floats *)

NaN == -1
Inf == -2

Max2(a, b) == IF a >= b THEN a ELSE b
Min2(a, b) == IF a <= b THEN a ELSE b

\* numpy.isnan
IsNaN(v) == v = NaN

\* IEEE ==: false whenever an operand is nan
FEq(a, b) == ~IsNaN(a) /\ ~IsNaN(b) /\ a = b

\* (b - a)**2 of two entries of embedding matrices (finite or nan)
FSqDiff(a, b) == IF IsNaN(a) \/ IsNaN(b) THEN NaN ELSE (b - a) * (b - a)

\* numpy.abs(b - a) of two entries of embedding matrices (finite or nan)
FAbsDiff(a, b) ==
    IF IsNaN(a) \/ IsNaN(b) THEN NaN ELSE IF b >= a THEN b - a ELSE a - b

\* a + b of two non-negative floats
FAdd(a, b) ==
    IF IsNaN(a) \/ IsNaN(b) THEN NaN
    ELSE IF a = Inf \/ b = Inf THEN Inf ELSE a + b

\* the order numpy's sorts and partitions use: finite < inf < nan,
\* nan not less than anything
SortLess(a, b) ==
    IF IsNaN(a) THEN FALSE
    ELSE IF IsNaN(b) THEN TRUE
    ELSE IF a = Inf THEN FALSE
    ELSE IF b = Inf THEN TRUE
    ELSE a < b

SortLeq(a, b) == ~SortLess(b, a)

-----------------------------------------------------------------------------
(* LaggedMatrixBuilder: make_partial_embedding, make_full_embedding *)

\* the outcome of a call: the matrix returned, or the exception raised
Returned(X) == [err |-> "none", X |-> X]
Raised(e) == [err |-> e, X |-> <<>>]

\* len(a[:stop]) for a of length n: a negative stop counts from the end
SliceLen(n, stop) == IF stop >= 0 THEN Min2(stop, n) ELSE Max2(0, n + stop)

\* len(X[tau:, i]) for X with n rows
TailLen(n, tau) == Max2(0, n - tau)

\* X[tau:,i] = x[:(N-tau)]: numpy assigns when the two shapes agree or the
\* source has exactly one element (broadcast), and raises ValueError otherwise
AssignFits(n, tau) ==
    \/ SliceLen(n, n - tau) = TailLen(n, tau)
    \/ SliceLen(n, n - tau) = 1

\* column i of X after line 33, at 0-based row r: rows tau.. hold x[0..], the
\* rows before keep the nan of line 30
LaggedEntry(xs, tau, r) == IF r >= tau THEN xs[r - tau + 1] ELSE NaN

RECURSIVE SeqMax(_)
\* numpy.max of a non-empty sequence
SeqMax(s) == IF Len(s) = 1 THEN s[1] ELSE Max2(s[1], SeqMax(Tail(s)))

\* X[k:, :]
DropRows(X, k) == IF k >= Len(X) THEN <<>> ELSE SubSeq(X, k + 1, Len(X))

\* the first column at which the loop of lines 31-33 raises, 0 if none
FirstBadColumn(n, lags) ==
    LET bad == {i \in 1..Len(lags) : lags[i] < 0 \/ ~AssignFits(n, lags[i])}
    IN  IF bad = {} THEN 0 ELSE CHOOSE i \in bad : \A j \in bad : i <= j

make_partial_embedding(xs, lags, preserve) ==
    LET n == Len(xs)
        b == FirstBadColumn(n, lags)
        X == [r \in 1..n |-> [j \in 1..Len(lags) |-> LaggedEntry(xs, lags[j], r - 1)]]
    IN  IF b # 0
        THEN IF lags[b] < 0 THEN Raised("AssertionError") ELSE Raised("ValueError")
        ELSE IF preserve THEN Returned(X)
        ELSE IF Len(lags) = 0 THEN Raised("ValueError")
        ELSE Returned(DropRows(X, SeqMax(lags)))

\* numpy.arange(0, E*tau, tau)
Arange(E, tau) == [j \in 1..E |-> (j - 1) * tau]

make_full_embedding(xs, E, tau, preserve) ==
    IF ~(E > 0 /\ tau > 0) THEN Raised("AssertionError")
    ELSE make_partial_embedding(xs, Arange(E, tau), preserve)

-----------------------------------------------------------------------------
(* DistanceEngine: squared_euclidean_distance, assign_diagonal *)

RECURSIVE RowSqDist(_, _)
\* ((b - a)**2).sum() over the columns of two rows
RowSqDist(a, b) ==
    IF Len(a) = 0 THEN 0
    ELSE FAdd(FSqDiff(a[1], b[1]), RowSqDist(Tail(a), Tail(b)))

\* squared_euclidean_distance taking the slice A[(i+1):(i+2),:] for row i
SqDistShifted(A, B) ==
    [i \in 1..Len(A) |-> [k \in 1..Len(B) |->
        RowSqDist(A[Min2(i + 1, Len(A))], B[k])]]

\* D[i,:] = ((B - A[i:(i+1),:].repeat(B.shape[0], axis=0))**2).sum(axis=1)
squared_euclidean_distance(A, B) ==
    [i \in 1..Len(A) |-> [k \in 1..Len(B) |-> RowSqDist(A[i], B[k])]]

\* numpy.sqrt on the model's representation (a finite s stands for sqrt(s))
Sqrt(M) == M

\* line 174 left out
KeepZeros(M) == M

\* D[D == 0.0] = float('inf')
ZeroToInf(M) ==
    [i \in 1..Len(M) |-> [k \in 1..Len(M[i]) |->
        IF FEq(M[i][k], 0) THEN Inf ELSE M[i][k]]]

\* number of columns of a matrix with at least one row
NCols(M) == IF Len(M) = 0 THEN 0 ELSE Len(M[1])

\* assign_diagonal(X, offset, val); i is the 0-based row
assign_diagonal(M, off, val) ==
    [r \in 1..Len(M) |-> [c \in 1..Len(M[r]) |->
        IF (r - 1) + off >= 0 /\ (r - 1) + off < NCols(M) /\ c - 1 = (r - 1) + off
        THEN val ELSE M[r][c]]]

\* a pass without lines 179-180
MaskUpperOnly(M, off, val) == assign_diagonal(M, off, val)

\* one pass of the loop of lines 177-180
MaskOffset(M, off, val) ==
    LET M1 == assign_diagonal(M, off, val)
    IN  IF off > 0 THEN assign_diagonal(M1, -off, val) ELSE M1

-----------------------------------------------------------------------------
(* NeighborFinder: find_neighbors *)

\* D[:, i], i 1-based
Column(M, i) == [r \in 1..Len(M) |-> M[r][i]]

\* the values numpy.argpartition(v, range(k))[:k] can take: k distinct
\* indices in ascending order of value (nan last), no index left out holding
\* a smaller value; the order among equal values is the library's choice
ArgPartitions(v, k) ==
    {s \in [1..k -> 1..Len(v)] :
        /\ \A a, b \in 1..k : a < b => (s[a] # s[b] /\ SortLeq(v[s[a]], v[s[b]]))
        /\ \A j \in 1..Len(v) :
             (\A a \in 1..k : s[a] # j) => \A a \in 1..k : SortLeq(v[s[a]], v[j])}

RECURSIVE NeighborTables(_, _, _)
\* the index tables N the loop of lines 154-155 can build for rows 1..i:
\* row i is partitioned from COLUMN i of D
NeighborTables(M, k, i) ==
    IF i = 0 THEN {<<>>}
    ELSE {Append(t, s) : t \in NeighborTables(M, k, i - 1),
                         s \in ArgPartitions(Column(M, i), k)}

\* DN[i,:] = D[i, N[i,:]]
NeighborDistances(M, Nt) ==
    [i \in 1..Len(M) |-> [q \in 1..Len(Nt[i]) |-> M[i][Nt[i][q]]]]

\* the (N, DN) pairs find_neighbors(D, n_neighbors) can return
find_neighbors(M, k) ==
    {[N |-> Nt, DN |-> NeighborDistances(M, Nt)] : Nt \in NeighborTables(M, k, Len(M))}

-----------------------------------------------------------------------------
(* GreedyEmbedder: the pure parts of nichkawde_embedding *)

\* max_deriv_tau = None
None == -1

Last(s) == s[Len(s)]

\* X_full[:, taus]: the columns of the lags in ts
Project(M, ts) == [r \in 1..Len(M) |-> [j \in 1..Len(ts) |-> M[r][ts[j] + 1]]]

\* the loop test with the bound off by one, either way
LoopCondOneShort(ts, E) == Last(ts) < E - 2
LoopCondOneLong(ts, E) == Last(ts) <= E - 1

\* the loop test of line 168
LoopCond(ts, E) == Last(ts) < E - 1

\* range(E_max): every lag a candidate again
CandidatesFromZero(ts, E) == 0..(E - 1)

\* range(taus[-1] + 1, E_max)
Candidates(ts, E) == (Last(ts) + 1)..(E - 1)

\* Dnext[i] of lines 187-189 for candidate lag t; Nv holds N[:,0]
Dnext(M, Nv, t, i) == FAbsDiff(M[i][t + 1], M[Nv[i]][t + 1])

\* Dnext / DN[:,0] (line 191) for one row.  dn is nan, inf or the radicand
\* of a square root; a finite non-zero quotient is kept as its two operands.
Deriv(dnext, dn) ==
    IF IsNaN(dnext) \/ IsNaN(dn) THEN [kind |-> "nan", num |-> 0, den |-> 1]
    ELSE IF dn = Inf THEN [kind |-> "zero", num |-> 0, den |-> 1]
    ELSE IF dn = 0 THEN
        IF dnext = 0 THEN [kind |-> "nan", num |-> 0, den |-> 1]
        ELSE [kind |-> "inf", num |-> dnext, den |-> 0]
    ELSE IF dnext = 0 THEN [kind |-> "zero", num |-> 0, den |-> dn]
    ELSE [kind |-> "pos", num |-> dnext, den |-> dn]

\* the mask of line 195: not nan and not 0.0
Survives(d) == d.kind # "nan" /\ d.kind # "zero"

\* natural logarithms of the primes, in millionths
LnPrime ==
    2 :> 693147 @@ 3 :> 1098612 @@ 5 :> 1609438 @@ 7 :> 1945910 @@
    11 :> 2397895 @@ 13 :> 2564949 @@ 17 :> 2833213 @@ 19 :> 2944439 @@
    23 :> 3135494 @@ 29 :> 3367296 @@ 31 :> 3433987 @@ 37 :> 3610918 @@
    41 :> 3713572 @@ 43 :> 3761200 @@ 47 :> 3850148 @@ 53 :> 3970292 @@
    59 :> 4077537 @@ 61 :> 4110874

RECURSIVE Ln(_)
\* numpy.log of a positive integer, in millionths: the sum over its prime
\* factors, so that equal products have equal logarithms
Ln(n) ==
    IF n = 1 THEN 0
    ELSE LET q == CHOOSE d \in 2..n : n % d = 0 /\ \A e \in 2..(d - 1) : n % e # 0
         IN  LnPrime[q] + Ln(n \div q)

\* 2 * log(deriv) of a finite positive quotient num / sqrt(den)
TwiceLog(d) == 2 * Ln(d.num) - Ln(d.den)

RECURSIVE SumTwiceLog(_, _)
SumTwiceLog(ds, rows) ==
    IF rows = {} THEN 0
    ELSE LET i == CHOOSE j \in rows : TRUE
         IN  TwiceLog(ds[i]) + SumTwiceLog(ds, rows \ {i})

\* the rows of deriv that line 195 keeps
KeptRows(ds) == {i \in 1..Len(ds) : Survives(ds[i])}

\* numpy.exp(numpy.log(deriv).mean()) (line 196): nan for an empty deriv
\* (or log values of both signs of infinity), 0 or inf when a kept quotient
\* is 0 or inf, else the positive value exp(s / (2 n))
GeoMean(ds) ==
    LET kept == KeptRows(ds)
        zero == \E i \in kept : ds[i].kind = "zero"
        inf == \E i \in kept : ds[i].kind = "inf"
    IN  IF kept = {} \/ (zero /\ inf) THEN [kind |-> "nan", s |-> 0, n |-> 1]
        ELSE IF zero THEN [kind |-> "zero", s |-> 0, n |-> 1]
        ELSE IF inf THEN [kind |-> "inf", s |-> 0, n |-> 1]
        ELSE [kind |-> "pos", s |-> SumTwiceLog(ds, kept), n |-> Cardinality(kept)]

\* max_deriv = 0.0 (line 184)
ZeroScore == [kind |-> "zero", s |-> 0, n |-> 1]

\* IEEE a > b on scores; exp is increasing, so two positive scores compare
\* as their mean logarithms s / (2 n)
ScoreGreater(a, b) ==
    IF a.kind = "nan" \/ b.kind = "nan" THEN FALSE
    ELSE IF a.kind = "zero" THEN FALSE
    ELSE IF a.kind = "inf" THEN b.kind # "inf"
    ELSE IF b.kind = "zero" THEN TRUE
    ELSE IF b.kind = "inf" THEN FALSE
    ELSE a.s * b.n > b.s * a.n

\* the test of line 198 written with >=
ReplacesOnTie(g, m) ==
    \/ ScoreGreater(g, m)
    \/ (g.kind = "pos" /\ m.kind = "pos" /\ g.s * m.n = m.s * g.n)

\* the test of line 198: geo_mean_deriv > max_deriv
Replaces(g, m) == ScoreGreater(g, m)

\* deriv of lines 187-191 for candidate lag t
DerivVector(M, Nv, DNv, t) ==
    [i \in 1..Len(M) |-> Deriv(Dnext(M, Nv, t, i), DNv[i])]

RECURSIVE BestLoop(_, _, _, _)
\* the loop of lines 186-200 over the candidates left, in ascending order,
\* from the scores sc: the value of max_deriv_tau at its end
BestLoop(sc, left, md, mdt) ==
    IF left = {} THEN mdt
    ELSE LET t == CHOOSE c \in left : \A e \in left : c <= e
         IN  IF Replaces(sc[t], md) THEN BestLoop(sc, left \ {t}, sc[t], t)
             ELSE BestLoop(sc, left \ {t}, md, mdt)

-----------------------------------------------------------------------------
(* Inputs *)

\* the series of length 1..MaxN
Series == UNION {[1..n -> Values] : n \in 1..MaxN}

\* the lag sequences handed to make_partial_embedding directly
LagSeqs == UNION {[1..n -> 0..MaxLag] : n \in 1..MaxLags}

\* the matrices handed to assign_diagonal / find_neighbors directly
Matrices ==
    UNION {[1..r -> [1..c -> DVals]] : r \in 1..MaxDim, c \in 1..MaxDim}

SquareMatrices == UNION {[1..n -> [1..n -> DVals]] : n \in 1..MaxDim}

-----------------------------------------------------------------------------
(* nichkawde_embedding as a state machine.  pc is the position in the     *)
(* function body; iters counts the passes of the while loop entered.      *)

Init ==
    /\ x \in Series
    /\ E_max \in 1..MaxE
    /\ neighbor_offset_min \in 0..MaxOffset
    /\ preserve_indices \in BOOLEAN
    /\ X_full = <<>>
    /\ taus = <<>>
    /\ D = <<>>
    /\ offset = 0
    /\ N = <<>>
    /\ DN = <<>>
    /\ scores = <<>>
    /\ max_deriv_tau = None
    /\ pc = "build"
    /\ iters = 0
    /\ exc = "none"
    /\ ret = <<>>
    /\ call = [op |-> "none"]

\* lines 164-167, make_full_embedding returning
Build ==
    /\ pc = "build"
    /\ LET r == make_full_embedding(x, E_max, 1, preserve_indices)
       IN  /\ r.err = "none"
           /\ X_full' = r.X
    /\ taus' = <<0>>
    /\ pc' = "while"
    /\ UNCHANGED <<x, E_max, neighbor_offset_min, preserve_indices, D, offset,
                   N, DN, scores, max_deriv_tau, iters, exc, ret, call>>

\* line 164, make_full_embedding raising
BuildRaises ==
    /\ pc = "build"
    /\ LET r == make_full_embedding(x, E_max, 1, preserve_indices)
       IN  /\ r.err # "none"
           /\ exc' = r.err
    /\ pc' = "raised"
    /\ UNCHANGED <<x, E_max, neighbor_offset_min, preserve_indices, X_full, taus,
                   D, offset, N, DN, scores, max_deriv_tau, iters, ret, call>>

\* line 168 true, then lines 170-174.  N, DN, the scores and max_deriv_tau of
\* the pass before are not read again before lines 182-185 assign them anew:
\* they are cleared here.
Distances ==
    /\ pc = "while"
    /\ LoopCond(taus, E_max)
    /\ iters' = iters + 1
    /\ LET X == Project(X_full, taus)
       IN  D' = ZeroToInf(Sqrt(squared_euclidean_distance(X, X)))
    /\ offset' = 0
    /\ N' = <<>>
    /\ DN' = <<>>
    /\ scores' = <<>>
    /\ max_deriv_tau' = None
    /\ pc' = "mask"
    /\ UNCHANGED <<x, E_max, neighbor_offset_min, preserve_indices, X_full, taus,
                   exc, ret, call>>

\* one pass of the loop of lines 177-180
Mask ==
    /\ pc = "mask"
    /\ offset < neighbor_offset_min
    /\ D' = MaskOffset(D, offset, NaN)
    /\ offset' = offset + 1
    /\ UNCHANGED <<x, E_max, neighbor_offset_min, preserve_indices, X_full, taus,
                   N, DN, scores, max_deriv_tau, pc, iters, exc, ret, call>>

\* line 182 and the loop of lines 184-200
Score ==
    /\ pc = "mask"
    /\ offset >= neighbor_offset_min
    /\ \E r \in find_neighbors(D, 1) :
          LET Nv == [i \in 1..Len(D) |-> r.N[i][1]]
              DNv == [i \in 1..Len(D) |-> r.DN[i][1]]
              cands == Candidates(taus, E_max)
              sc == [t \in cands |-> GeoMean(DerivVector(X_full, Nv, DNv, t))]
          IN  /\ N' = Nv
              /\ DN' = DNv
              /\ scores' = sc
              /\ max_deriv_tau' =
                    BestLoop(sc, cands, ZeroScore, None)
    /\ pc' = "pick"
    /\ UNCHANGED <<x, E_max, neighbor_offset_min, preserve_indices, X_full, taus,
                   D, offset, iters, exc, ret, call>>

\* lines 202-203
Fail ==
    /\ pc = "pick"
    /\ max_deriv_tau = None
    /\ exc' = "could not calculate max derivative"
    /\ pc' = "raised"
    /\ UNCHANGED <<x, E_max, neighbor_offset_min, preserve_indices, X_full, taus,
                   D, offset, N, DN, scores, max_deriv_tau, iters, ret, call>>

\* line 204
Append_tau ==
    /\ pc = "pick"
    /\ max_deriv_tau # None
    /\ taus' = Append(taus, max_deriv_tau)
    /\ pc' = "while"
    /\ UNCHANGED <<x, E_max, neighbor_offset_min, preserve_indices, X_full,
                   D, offset, N, DN, scores, max_deriv_tau, iters, exc, ret, call>>

\* line 168 false, then line 206
Return ==
    /\ pc = "while"
    /\ ~LoopCond(taus, E_max)
    /\ ret' = Project(X_full, taus)
    /\ pc' = "returned"
    /\ UNCHANGED <<x, E_max, neighbor_offset_min, preserve_indices, X_full, taus,
                   D, offset, N, DN, scores, max_deriv_tau, iters, exc, call>>

Next == Build \/ BuildRaises \/ Distances \/ Mask \/ Score \/ Fail \/ Append_tau \/ Return

Spec == Init /\ [][Next]_vars

-----------------------------------------------------------------------------
(* The library functions called directly: one call per behaviour.  call   *)
(* records the function, its arguments and what it returned or raised.    *)

LibInit ==
    /\ x = <<>>
    /\ E_max = 0
    /\ neighbor_offset_min = 0
    /\ preserve_indices = TRUE
    /\ X_full = <<>>
    /\ taus = <<>>
    /\ D = <<>>
    /\ offset = 0
    /\ N = <<>>
    /\ DN = <<>>
    /\ scores = <<>>
    /\ max_deriv_tau = None
    /\ pc = "lib"
    /\ iters = 0
    /\ exc = "none"
    /\ ret = <<>>
    /\ call = [op |-> "idle"]

CallPartial ==
    /\ call.op = "idle"
    /\ \E xs \in Series, lags \in LagSeqs, p \in BOOLEAN :
          call' = [op |-> "make_partial_embedding", x |-> xs, taus |-> lags,
                   preserve_indices |-> p,
                   out |-> make_partial_embedding(xs, lags, p)]
    /\ UNCHANGED embedVars

CallFull ==
    /\ call.op = "idle"
    /\ \E xs \in Series, E \in 1..MaxE, tau \in 1..MaxTau, p \in BOOLEAN :
          call' = [op |-> "make_full_embedding", x |-> xs, E |-> E, tau |-> tau,
                   preserve_indices |-> p,
                   out |-> make_full_embedding(xs, E, tau, p)]
    /\ UNCHANGED embedVars

\* squared_euclidean_distance(A, A) on a matrix the builder returns
CallSquaredDistance ==
    /\ call.op = "idle"
    /\ \E xs \in Series, lags \in LagSeqs, p \in BOOLEAN :
          LET r == make_partial_embedding(xs, lags, p)
          IN  /\ r.err = "none"
              /\ call' = [op |-> "squared_euclidean_distance", A |-> r.X,
                          out |-> squared_euclidean_distance(r.X, r.X)]
    /\ UNCHANGED embedVars

\* one masking pass (lines 178-180) on a matrix of any shape
CallMask ==
    /\ call.op = "idle"
    /\ \E M \in Matrices, off \in 0..MaxDim, v \in {NaN, Inf} :
          call' = [op |-> "mask", D |-> M, offset |-> off, val |-> v,
                   out |-> MaskOffset(M, off, v)]
    /\ UNCHANGED embedVars

CallFindNeighbors ==
    /\ call.op = "idle"
    /\ \E M \in SquareMatrices :
          \E k \in 0..Len(M) :
             \E r \in find_neighbors(M, k) :
                call' = [op |-> "find_neighbors", D |-> M, n_neighbors |-> k,
                         out |-> r]
    /\ UNCHANGED embedVars

LibNext ==
    CallPartial \/ CallFull \/ CallSquaredDistance \/ CallMask \/ CallFindNeighbors

LibSpec == LibInit /\ [][LibNext]_vars

-----------------------------------------------------------------------------
(* Properties *)

Terminated == pc \in {"returned", "raised"}

\* x[i] for a 0-based index i, the missing-value sentinel for i < 0
Lagged(xs, i) == IF i >= 0 THEN xs[i + 1] ELSE NaN

\* the lags of the call recorded in call
CallLags ==
    IF call.op = "make_partial_embedding" THEN call.taus
    ELSE [j \in 1..call.E |-> (j - 1) * call.tau]

\* C1: for every series of length N >= 1 and all lags >= 0 (lags >= N and
\* lags > N included) make_partial_embedding returns the matrix whose row r,
\* column j holds x[r + d - lags[j]] when that index is >= 0 and nan
\* otherwise, with d = 0 and N rows when preserve_indices is true, d =
\* max(lags) and the first max(lags) rows removed when it is false;
\* make_full_embedding is the same with lags (0, tau, ..., (E-1)*tau).
C1_BuilderReturnsLaggedMatrix ==
    call.op \in {"make_partial_embedding", "make_full_embedding"} =>
        LET lags == CallLags
            n == Len(call.x)
            d == IF call.preserve_indices THEN 0 ELSE SeqMax(lags)
            X == call.out.X
        IN  /\ call.out.err = "none"
            /\ Len(X) = Max2(n - d, 0)
            /\ \A r \in 1..Len(X) :
                  /\ Len(X[r]) = Len(lags)
                  /\ \A j \in 1..Len(lags) :
                        X[r][j] = Lagged(call.x, (r - 1) + d - lags[j])

\* C2: at every point of the greedy loop and in the returned value the
\* chosen lag set starts with 0, is strictly increasing and holds no lag
\* above E_max - 1.
C2_LagSetIncreasing ==
    taus # <<>> =>
        /\ taus[1] = 0
        /\ \A a, b \in 1..Len(taus) : a < b => taus[a] < taus[b]
        /\ \A a \in 1..Len(taus) : taus[a] <= E_max - 1

\* a call returned a lag set that skips a lag
C2_Witness ==
    /\ pc = "returned"
    /\ Len(taus) >= 2
    /\ \E a \in 1..(Len(taus) - 1) : taus[a + 1] > taus[a] + 1

\* the lags left above the last chosen one
LagsLeft == E_max - 1 - Last(taus)

\* an upper bound on the steps the call has left: a pass takes
\* neighbor_offset_min + 3 steps and appends a lag above the last one
StepsLeft ==
    LET pass == neighbor_offset_min + 3
    IN  CASE pc = "build" -> E_max * pass + 2
          [] pc = "while" -> LagsLeft * pass + 1
          [] pc = "mask" ->
                (LagsLeft - 1) * pass + 1 + (neighbor_offset_min - offset) + 2
          [] pc = "pick" -> (LagsLeft - 1) * pass + 2
          [] OTHER -> 0

\* some action of Next is enabled, guard by guard: Build or BuildRaises;
\* Distances or Return; Mask, or Score, which needs a neighbour to choose
\* for every row; Fail or Append_tau
CanStep ==
    \/ pc = "build"
    \/ pc = "while"
    \/ pc = "mask" /\ offset < neighbor_offset_min
    \/ /\ pc = "mask" /\ offset >= neighbor_offset_min
       /\ \A i \in 1..Len(D) : ArgPartitions(Column(D, i), 1) # {}
    \/ pc = "pick"

\* C3: for every input with E_max >= 1 the call terminates, returning or
\* raising, after entering the while loop at most E_max - 1 times: it is
\* never stuck before it ends, every step lowers the bound StepsLeft >= 0 on
\* the steps left, and every pass appends a lag above the last one.
C3_Terminates ==
    /\ [](iters <= E_max - 1)
    /\ [](StepsLeft >= 0)
    /\ [](Terminated \/ CanStep)
    /\ [][StepsLeft' < StepsLeft]_vars
    /\ [][(pc = "pick" /\ pc' = "while") =>
            (Last(taus') > Last(taus) /\ Last(taus') <= E_max - 1)]_vars

\* a call that went through the largest number of passes, E_max - 1 >= 2
C3_Witness == Terminated /\ E_max >= 3 /\ iters = E_max - 1

\* every candidate's set of surviving derivative ratios is empty
NoValidScore ==
    \A t \in Candidates(taus, E_max) :
        KeptRows(DerivVector(X_full, N, DN, t)) = {}

IsConstant(xs) == \A i \in 1..Len(xs) : xs[i] = xs[1]

\* C4: when no candidate lag has a valid score in a pass, the call raises
\* 'could not calculate max derivative' in that pass and returns neither a
\* lag set nor a matrix; every call on a constant series with E_max >= 2
\* ends that way.
C4_FailsWithoutValidScore ==
    /\ (pc = "pick" /\ NoValidScore) => max_deriv_tau = None
    /\ (pc = "raised" /\ exc = "could not calculate max derivative") => ret = <<>>
    /\ (Terminated /\ IsConstant(x) /\ E_max >= 2) =>
          (pc = "raised" /\ exc = "could not calculate max derivative")

\* C5: for every distance matrix D, symmetric or not, and every k up to the
\* number of columns, find_neighbors(D, k) returns for each row i k distinct
\* columns holding the k smallest values of row i, with the distance at each
\* position equal to D[i, index at that position].
C5_NeighborsOfRow ==
    call.op = "find_neighbors" =>
        \A i \in 1..Len(call.D) :
            LET row == call.D[i]
                idx == call.out.N[i]
            IN  /\ Len(idx) = call.n_neighbors
                /\ \A a, b \in 1..Len(idx) : a # b => idx[a] # idx[b]
                /\ \A a \in 1..Len(idx) : \A j \in 1..Len(row) :
                      (\A b \in 1..Len(idx) : idx[b] # j) =>
                          SortLeq(row[idx[a]], row[j])
                /\ \A a \in 1..Len(idx) : call.out.DN[i][a] = row[idx[a]]

\* C6: a masking pass with offset 0 and value v sets every D[i,i] to v and
\* nothing else; a masking pass with offset > 0 sets D[i, i+offset] and
\* D[i, i-offset], wherever the column exists, to v and nothing else.
C6_MaskSetsBothDiagonals ==
    call.op = "mask" =>
        /\ Len(call.out) = Len(call.D)
        /\ \A r \in 1..Len(call.D) :
              /\ Len(call.out[r]) = Len(call.D[r])
              /\ \A c \in 1..Len(call.D[r]) :
                    call.out[r][c] =
                        IF c - r = call.offset \/ r - c = call.offset
                        THEN call.val ELSE call.D[r][c]

\* a pass with offset 1 on a 2 x 2 matrix: both off-diagonal entries set,
\* the main diagonal kept
C6_Witness ==
    /\ call.op = "mask"
    /\ call.offset = 1
    /\ Len(call.D) = 2 /\ Len(call.D[1]) = 2
    /\ call.out[1][2] = call.val /\ call.out[2][1] = call.val
    /\ call.out[1][1] = call.D[1][1] /\ call.out[2][2] = call.D[2][2]

\* the row holds no missing value
FullRow(row) == \A c \in 1..Len(row) : ~IsNaN(row[c])

\* C7 as stated: for every matrix A the builder can produce, rows with
\* missing values included, squared_euclidean_distance(A, A) has a zero
\* diagonal and is symmetric.
C7_ZeroDiagonalSymmetric ==
    call.op = "squared_euclidean_distance" =>
        \A i, k \in 1..Len(call.A) :
            /\ FEq(call.out[i][i], 0)
            /\ FEq(call.out[i][k], call.out[k][i])

\* C7 amended: D[i,i] = 0 for every row i without a missing value and
\* D[i,k] = D[k,i] for all rows i, k without missing values; every entry
\* whose row i or row k holds a missing value is nan.
C7_ZeroDiagonalSymmetricOnFullRows ==
    call.op = "squared_euclidean_distance" =>
        /\ Len(call.out) = Len(call.A)
        /\ \A i, k \in 1..Len(call.A) :
              IF FullRow(call.A[i]) /\ FullRow(call.A[k])
              THEN /\ FEq(call.out[i][i], 0)
                   /\ FEq(call.out[i][k], call.out[k][i])
              ELSE IsNaN(call.out[i][k])

\* a matrix with a row holding a missing value and two full rows at a
\* positive distance
C7_Witness ==
    /\ call.op = "squared_euclidean_distance"
    /\ \E i \in 1..Len(call.A) : ~FullRow(call.A[i])
    /\ \E i, k \in 1..Len(call.A) :
          /\ i # k /\ FullRow(call.A[i]) /\ FullRow(call.A[k])
          /\ call.out[i][k] > 0

\* a score over a non-empty set of surviving ratios
ValidScore(g) == g.kind = "pos"

\* two valid scores are equal
SameScore(g, h) == ValidScore(g) /\ ValidScore(h) /\ g.s * h.n = h.s * g.n

\* the candidates of the pass that appended the last lag
LastCandidates == (taus[Len(taus) - 1] + 1)..(E_max - 1)

\* C8: the lag a pass appends is the candidate in lastChosenLag+1 .. E_max-1
\* whose geometric-mean score over its surviving derivative ratios is the
\* largest of all candidates with a valid score, the smallest such lag when
\* several share that score.
C8_AppendsBestCandidate ==
    (pc \in {"while", "returned"} /\ Len(taus) >= 2) =>
        LET t == Last(taus)
        IN  /\ t \in LastCandidates
            /\ DOMAIN scores = LastCandidates
            /\ \A c \in LastCandidates :
                  scores[c] = GeoMean(DerivVector(X_full, N, DN, c))
            /\ ValidScore(scores[t])
            /\ \A c \in LastCandidates :
                  ValidScore(scores[c]) =>
                      /\ ~ScoreGreater(scores[c], scores[t])
                      /\ (SameScore(scores[c], scores[t]) => t <= c)

\* a pass appended the smaller of two candidates that tie at the largest
\* valid score
C8_Witness ==
    /\ pc = "while"
    /\ Len(taus) >= 2
    /\ \E c \in LastCandidates :
          c > Last(taus) /\ SameScore(scores[c], scores[Last(taus)])

\* C9: a call that returns normally returns a lag set whose last lag is
\* E_max - 1 and a matrix with one column per chosen lag, equal to that
\* lag's column of the full candidate matrix; with E_max = 1 it returns the
\* lag set (0,) without entering the loop.
C9_ReturnsAtLastLag ==
    /\ pc = "returned" =>
          /\ Last(taus) = E_max - 1
          /\ Len(ret) = Len(X_full)
          /\ \A r \in 1..Len(ret) :
                /\ Len(ret[r]) = Len(taus)
                /\ \A j \in 1..Len(taus) : ret[r][j] = X_full[r][taus[j] + 1]
    /\ (Terminated /\ E_max = 1) =>
          (pc = "returned" /\ taus = <<0>> /\ iters = 0)

\* a call returned fewer than E_max lags, the last one E_max - 1, with a
\* non-empty matrix
C9_Witness ==
    /\ pc = "returned"
    /\ E_max >= 3
    /\ Len(taus) >= 2 /\ Len(taus) < E_max
    /\ Len(ret) > 0

Abs(a) == IF a >= 0 THEN a ELSE -a

\* C10: in every pass and for every candidate lag, each row i whose
\* derivative ratio survives the drop step has a selected neighbour N[i]
\* other than i, at least neighbor_offset_min away in time, at a finite,
\* strictly positive distance DN[i]: the entry D[i, N[i]] is not masked, and
\* the two embedded points hold no missing value and are not duplicates.
C10_SurvivorsHaveRealNeighbours ==
    pc = "pick" =>
        \A t \in Candidates(taus, E_max) :
            \A i \in KeptRows(DerivVector(X_full, N, DN, t)) :
                /\ N[i] # i
                /\ Abs(i - N[i]) >= neighbor_offset_min
                /\ ~IsNaN(DN[i]) /\ DN[i] # Inf /\ DN[i] > 0
                /\ DN[i] = D[i][N[i]]
                /\ FullRow(Project(X_full, taus)[i])
                /\ FullRow(Project(X_full, taus)[N[i]])
                /\ Project(X_full, taus)[i] # Project(X_full, taus)[N[i]]

\* a pass in which a row without missing values was given a masked entry
\* as its neighbour while another row's ratio survives for some candidate
C10_Witness ==
    /\ pc = "pick"
    /\ \E i \in 1..Len(N) :
          /\ FullRow(X_full[i])
          /\ Abs(i - N[i]) < neighbor_offset_min
          /\ IsNaN(DN[i])
    /\ \E t \in Candidates(taus, E_max) :
          KeptRows(DerivVector(X_full, N, DN, t)) # {}

====
